---- MODULE Spec2Model ----
(***************************************************************************)
(* Fuel monitor (monitor-fuel.ts, listed in WHATS_FUEL.md) and its alert   *)
(* backends (alert-backends.ts).  One monitor cycle is one process         *)
(* invocation: the 'ready' handler loads the alert state, awaits the       *)
(* vehicle status, runs the threshold logic, awaits sendAlert for at most  *)
(* one severity, saves the state and exits.                                *)
(***************************************************************************)
EXTENDS Integers, Sequences, FiniteSets, TLC

\* Fuel thresholds in miles.
THRESHOLD_LOW == 50
THRESHOLD_CRITICAL == 15

\* Cap on the per-episode notification counters lowSince / critSince.
MaxAlerts == 2

\* Range readings the telematics collaborator may report (status.engine.range).
Readings == {0, 10, 15, 16, 40, 50, 51, 60, 80, 200}

\* Values of process.env.TEST_ALERT?.toLowerCase(); "none" is unset, "yes"
\* stands for any other non-empty string.
TestAlerts == {"none", "low", "critical", "yes"}

\* Largest number of destinations of a direct-message backend.
MaxDests == 2

\* Cap on the scheduled cycles counted once the cron daemon runs.
MaxRuns == 2

\* Kinds of alert backend: the console logger never rejects, a
\* direct-message backend (Twilio, e-mail gateway) may.
Backends == {"console", "direct"}

VARIABLES
    file,         \* .fuel-alert-state.json: [exists, content, data]
    pc,           \* position of the process: start, login, awaitStatus,
                  \* awaitTest, awaitCritical, awaitLow, exited
    testAlert,    \* TEST_ALERT of this invocation
    backend,      \* kind of alertBackend of this invocation
    state,        \* the handler's local AlertState
    gotRange,     \* vehicle.status() has resolved with a status
    currentRange, \* status.engine.range
    exitCode,     \* argument of process.exit, -1 while running
    prior,        \* history: the state loadState returned in this cycle
    emitted,      \* history: severities sendAlert was called with, this cycle
    sendFailed,   \* history: a sendAlert call of this cycle rejected
    saved,        \* history: writeFileSync succeeded in this cycle
    prev,         \* history: summary of the previous invocation
    nominal,      \* history: no test override, rejected sendAlert or failed
                  \* write in any cycle so far
    lowSince,     \* history: low notifications since the last reading > 50
    critSince,    \* history: critical notifications since the last reading > 50
    scenOn,       \* history: the readings so far are a prefix of ScenarioA
    trace,        \* history: per completed cycle, the severities emitted
    attempts,     \* per destination of the backend, the state of its dispatch:
                  \* idle, pending, ok, failed
    stateNull,    \* loadState returned null (the file holds the JSON null)
    summary,      \* the status summary printed by this cycle
    config,       \* outcome of the module-level configuration checks
    file0,        \* history: the state file when the process started
    writeFailed,  \* history: writeFileSync threw in this cycle
    allSent,      \* history: no sendAlert call has rejected so far
    thrown,       \* destinations whose outcome the error thrown by sendAlert
                  \* carries
    cycles,       \* two invocations that overlap: per invocation [pc, state,
                  \* prior, range, emitted]
    shared,       \* the state file the overlapping invocations share:
                  \* [exists, content, data, len]
    entry,        \* the container's entrypoint.sh: [pc, envFile, set, cron,
                  \* code, runs]
    selection     \* a call of createAlertBackend(): [raw, env, called, made,
                  \* sent]

vars == <<file, pc, testAlert, backend, state, gotRange, currentRange,
          exitCode, prior, emitted, sendFailed, saved, prev, nominal,
          lowSince, critSince, scenOn, trace, attempts, stateNull, summary,
          config, file0, writeFailed, allSent, thrown, cycles, shared,
          entry, selection>>

race == <<cycles, shared>>

aside == <<entry, selection>>

hist == <<nominal, lowSince, critSince, scenOn, trace>>

\* Default state if file doesn't exist or can't be read.
DefaultState == [alert50Sent |-> FALSE, alert15Sent |-> FALSE, lastRange |-> 0]

\* The reading sequence of end-to-end scenario A.
ScenarioA == <<80, 40, 40, 10, 60>>

NoPrev == [hasRange |-> FALSE, range |-> 0, emitted |-> <<>>, saved |-> FALSE,
           sendFailed |-> FALSE, test |-> "none", prior |-> DefaultState]

\* loadState(): the parsed file when it exists and parses to a record, else
\* (no file, or JSON.parse throws) the default state.
loadState(f) ==
    IF f.exists /\ f.content = "record" THEN f.data ELSE DefaultState

\* loadState() returns JSON.parse(data) as it is: null for the text null.
loadsNull(f) == f.exists /\ f.content = "null"

\* Mutants of ClearAlerts: the reset forgets one of the two flags.
ClearAlertsCriticalOnly(s, r) ==
    IF r > THRESHOLD_LOW THEN [s EXCEPT !.alert15Sent = FALSE] ELSE s

ClearAlertsLowOnly(s, r) ==
    IF r > THRESHOLD_LOW THEN [s EXCEPT !.alert50Sent = FALSE] ELSE s

\* Mutant of ClearAlerts: the reset tests the critical threshold.
ClearAlertsAboveCritical(s, r) ==
    IF r > THRESHOLD_CRITICAL
    THEN [s EXCEPT !.alert50Sent = FALSE, !.alert15Sent = FALSE]
    ELSE s

\* LOGIC: Clear alerts if fuel is back above 50 miles.
ClearAlerts(s, r) ==
    IF r > THRESHOLD_LOW
    THEN [s EXCEPT !.alert50Sent = FALSE, !.alert15Sent = FALSE]
    ELSE s

\* Mutant of CriticalDue: < for <=.
CriticalDueStrict(s, r) == r < THRESHOLD_CRITICAL /\ ~s.alert15Sent

\* Mutant of CriticalDue: a low alert already sent suppresses the critical one.
CriticalDueBlockedByLow(s, r) ==
    r <= THRESHOLD_CRITICAL /\ ~s.alert15Sent /\ ~s.alert50Sent

\* Mutant of CriticalDue: the critical check tests the low threshold.
CriticalDueAtLow(s, r) == r <= THRESHOLD_LOW /\ ~s.alert15Sent

\* Mutant of CriticalDue: no critical alert for a reading equal to lastRange.
CriticalDueOnChange(s, r) ==
    r <= THRESHOLD_CRITICAL /\ ~s.alert15Sent /\ s.lastRange # r

\* LOGIC: Check 15-mile critical threshold (the condition of the if).
CriticalDue(s, r) == r <= THRESHOLD_CRITICAL /\ ~s.alert15Sent

\* Mutant of LowDue: a critical alert already sent suppresses the low one.
LowDueUnlessCritical(s, r) ==
    r <= THRESHOLD_LOW /\ r > THRESHOLD_CRITICAL /\ ~s.alert50Sent
      /\ ~s.alert15Sent

\* Mutant of LowDue: the lower bound of the band is missing.
LowDueNoLowerBound(s, r) == r <= THRESHOLD_LOW /\ ~s.alert50Sent

\* Mutant of LowDue: < for <=.
LowDueStrict(s, r) == r < THRESHOLD_LOW /\ r > THRESHOLD_CRITICAL /\ ~s.alert50Sent

\* LOGIC: Check 50-mile low threshold (the condition of the if).
LowDue(s, r) == r <= THRESHOLD_LOW /\ r > THRESHOLD_CRITICAL /\ ~s.alert50Sent

\* Mutant of MarkSent: the flag is never set.
MarkSentNever(s, sev) == s

\* Mutant of MarkSent: the flags are swapped.
MarkSentSwapped(s, sev) ==
    IF sev = "critical" THEN [s EXCEPT !.alert50Sent = TRUE]
    ELSE [s EXCEPT !.alert15Sent = TRUE]

\* Mutant of MarkSent: a critical alert sets both flags.
MarkSentBoth(s, sev) ==
    IF sev = "critical"
    THEN [s EXCEPT !.alert15Sent = TRUE, !.alert50Sent = TRUE]
    ELSE [s EXCEPT !.alert50Sent = TRUE]

\* The assignment that follows a sendAlert that returned.
MarkSent(s, sev) ==
    IF sev = "critical" THEN [s EXCEPT !.alert15Sent = TRUE]
    ELSE [s EXCEPT !.alert50Sent = TRUE]

Bump(n) == IF n < MaxAlerts THEN n + 1 ELSE MaxAlerts

\* Contents the state file may have when the monitor is first run: no file,
\* text that JSON.parse rejects, or the JSON text null.
InitialFiles ==
    { [exists |-> FALSE, content |-> "record", data |-> DefaultState],
      [exists |-> TRUE, content |-> "garbage", data |-> DefaultState],
      [exists |-> TRUE, content |-> "null", data |-> DefaultState] }

NoSummary == [printed |-> FALSE, alert50Sent |-> FALSE, alert15Sent |-> FALSE]

\* Two invocations about to start, and no state file.
NoCycles ==
    [i \in 1..2 |-> [pc |-> "login", state |-> DefaultState,
                     prior |-> DefaultState, range |-> 0, emitted |-> <<>>]]

NoShared ==
    [exists |-> FALSE, content |-> "record", data |-> DefaultState, len |-> 0]

\* The entrypoint has not been run, createAlertBackend() not been called.
NoEntry ==
    [pc |-> "start", envFile |-> TRUE, set |-> {}, cron |-> FALSE,
     code |-> -1, runs |-> 0]

NoSelection ==
    [raw |-> "unset", env |-> <<>>, called |-> FALSE,
     made |-> [kind |-> "console", error |-> "none", reported |-> {}],
     sent |-> "none"]

NoConfigError ==
    [error |-> "none", sel |-> "none", reported |-> {},
     env |-> [direct |-> FALSE, missing |-> {}, blankDest |-> FALSE]]

\* Mutant of AllDelivered: one delivered destination is enough.
AnyDelivered(a) == \E d \in DOMAIN a : a[d] = "ok"

\* await Promise.all(promises) returns: every per-destination promise resolved.
AllDelivered(a) == \A d \in DOMAIN a : a[d] = "ok"

\* await Promise.all(promises) throws: a per-destination promise rejected.
SomeFailed(a) == \E d \in DOMAIN a : a[d] = "failed"

\* Mutant of StartDispatch: the dispatches are started one after the other,
\* only the first is in flight.
StartDispatchFirstOnly(a) ==
    [d \in DOMAIN a |-> IF d = 1 THEN "pending" ELSE "idle"]

\* this.toPhoneNumbers.map(async ...): a dispatch is started per destination.
StartDispatch(a) == [d \in DOMAIN a |-> "pending"]

\* Mutant of TestSeverity: the test alert is always a low one.
TestSeverityLow(t) == "low"

\* const testSeverity = TEST_ALERT === 'critical' ? 'critical' : 'low'.
TestSeverity(t) == IF t = "critical" THEN "critical" ELSE "low"

Init ==
    /\ file \in InitialFiles
    /\ pc = "start"
    /\ testAlert = "none"
    /\ backend = "console"
    /\ state = DefaultState
    /\ gotRange = FALSE
    /\ currentRange = 0
    /\ exitCode = -1
    /\ prior = DefaultState
    /\ emitted = <<>>
    /\ sendFailed = FALSE
    /\ saved = FALSE
    /\ prev = NoPrev
    /\ nominal = ~file.exists
    /\ lowSince = 0
    /\ critSince = 0
    /\ scenOn = ~file.exists
    /\ trace = <<>>
    /\ attempts = <<>>
    /\ stateNull = FALSE
    /\ summary = NoSummary
    /\ config = NoConfigError
    /\ file0 = file
    /\ writeFailed = FALSE
    /\ allSent = TRUE
    /\ thrown = {}
    /\ cycles = NoCycles
    /\ shared = NoShared
    /\ entry = NoEntry
    /\ selection = NoSelection

\* A new process begins: everything but the state file and the history is
\* that of a fresh process whose alertBackend has n destinations.
StartBody(t, b, n) ==
    /\ pc \in {"start", "exited"}
    /\ lowSince < MaxAlerts /\ critSince < MaxAlerts
    /\ testAlert' = t
    /\ backend' = b
    /\ state' = DefaultState
    /\ gotRange' = FALSE
    /\ currentRange' = 0
    /\ prior' = DefaultState
    /\ emitted' = <<>>
    /\ sendFailed' = FALSE
    /\ saved' = FALSE
    /\ prev' = IF pc = "start" THEN NoPrev
               ELSE [hasRange |-> gotRange, range |-> currentRange,
                     emitted |-> emitted, saved |-> saved,
                     sendFailed |-> sendFailed, test |-> testAlert,
                     prior |-> prior]
    /\ attempts' = [d \in 1..n |-> "idle"]
    /\ stateNull' = FALSE
    /\ summary' = NoSummary
    /\ file0' = file
    /\ writeFailed' = FALSE
    /\ thrown' = {}
    /\ UNCHANGED <<file, hist, allSent, race, aside>>

\* The scheduler (cron, or the operator) runs monitor-fuel.ts: a new process
\* with its own environment; nothing but the state file survives.  The
\* configuration is valid: alertBackend is of kind b and has n destinations.
StartProcess(t, b, n) ==
    /\ (b = "console") <=> (n = 0)
    /\ StartBody(t, b, n)
    /\ pc' = "login"
    /\ exitCode' = -1
    /\ config' = NoConfigError

\* The environment variables each backend requires, its destination list
\* first in the order of the checks.
TwilioVars ==
    {"TWILIO_TO_PHONE", "TWILIO_FROM_PHONE", "TWILIO_ACCOUNT_SID",
     "TWILIO_AUTH_TOKEN"}

EmailVars ==
    {"TMOBILE_PHONES", "EMAIL_SMTP_HOST", "EMAIL_SMTP_PORT", "EMAIL_SMTP_USER",
     "EMAIL_SMTP_PASSWORD", "EMAIL_FROM"}

BluelinkVars == {"BLUELINK_USERNAME", "BLUELINK_PASSWORD", "BLUELINK_PIN"}

\* Values of ALERT_BACKEND after toLowerCase(); "unset" is no value.
Selectors ==
    {"unset", "console", "twilio-trial", "sms", "twilio", "twilio-paid",
     "tmobile-email", "email", "sns"}

\* The case of the switch a selector reaches.
BackendKind(sel) ==
    IF sel = "twilio-trial" THEN "twilio-trial"
    ELSE IF sel \in {"sms", "twilio", "twilio-paid"} THEN "twilio"
    ELSE IF sel \in {"tmobile-email", "email"} THEN "tmobile-email"
    ELSE "console"

RequiredVars(kind) ==
    IF kind \in {"twilio-trial", "twilio"} THEN TwilioVars
    ELSE IF kind = "tmobile-email" THEN EmailVars
    ELSE {}

DestVar(kind) ==
    IF kind = "tmobile-email" THEN "TMOBILE_PHONES" ELSE "TWILIO_TO_PHONE"

\* Values of an environment variable: absent (undefined or empty, falsy),
\* blank (only spaces and commas: truthy, but no destination is left after
\* split, trim and filter), set.
EnvValues(kind, v) ==
    IF v = DestVar(kind) THEN {"absent", "blank", "set"} ELSE {"absent", "set"}

Environments(kind) ==
    {e \in [RequiredVars(kind) -> {"absent", "blank", "set"}] :
        \A v \in RequiredVars(kind) : e[v] \in EnvValues(kind, v)}

\* Mutant of createAlertBackend: only one missing variable is reported.
createAlertBackendFirstOnly(sel, env) ==
    LET kind == BackendKind(sel)
        missing == {v \in RequiredVars(kind) : env[v] = "absent"}
    IN  IF kind = "console"
        THEN [kind |-> kind, error |-> "none", reported |-> {}]
        ELSE IF missing # {}
        THEN [kind |-> kind, error |-> "missing",
              reported |-> {CHOOSE v \in missing : TRUE}]
        ELSE IF env[DestVar(kind)] = "blank"
        THEN [kind |-> kind, error |-> "empty", reported |-> {}]
        ELSE [kind |-> kind, error |-> "none", reported |-> {}]

\* createAlertBackend(): the backend the selector chooses, or the error
\* thrown: "missing" after logging every missing variable, "empty" when the
\* destination list is empty.
createAlertBackend(sel, env) ==
    LET kind == BackendKind(sel)
        missing == {v \in RequiredVars(kind) : env[v] = "absent"}
    IN  IF kind = "console"
        THEN [kind |-> kind, error |-> "none", reported |-> {}]
        ELSE IF missing # {}
        THEN [kind |-> kind, error |-> "missing", reported |-> missing]
        ELSE IF env[DestVar(kind)] = "blank"
        THEN [kind |-> kind, error |-> "empty", reported |-> {}]
        ELSE [kind |-> kind, error |-> "none", reported |-> {}]

\* What the environment truly lacks, for the selected kind of backend.
Lacks(kind, env) ==
    [direct |-> kind # "console",
     missing |-> {v \in RequiredVars(kind) : env[v] = "absent"},
     blankDest |-> (kind # "console" /\ env[DestVar(kind)] = "blank")]

\* Mutant of ConfigExit: the configuration error is reported and the process
\* exits with code 0.
ConfigExitZero(c) ==
    /\ StartBody("none", "none", 0)
    /\ pc' = "exited"
    /\ exitCode' = 0
    /\ config' = c

\* The process ends in the module-level code, before monitorFuel() is
\* called: TEST_ALERT is never read, no backend exists.
ConfigExit(c) ==
    /\ StartBody("none", "none", 0)
    /\ pc' = "exited"
    /\ exitCode' = 1
    /\ config' = c

\* Validate required environment variables: the BLUELINK variables in creds
\* are missing, each is logged, process.exit(1).
CredentialsExit(creds) ==
    /\ creds # {}
    /\ ConfigExit([error |-> "credentials", sel |-> "none", reported |-> creds,
                   env |-> Lacks("console", <<>>)])

\* The BLUELINK variables are set and createAlertBackend() throws for the
\* selector sel in the environment env: the uncaught exception ends the
\* process with code 1.
BackendError(sel, env) ==
    LET made == createAlertBackend(sel, env) IN
    /\ made.error # "none"
    /\ ConfigExit([error |-> made.error, sel |-> sel,
                   reported |-> made.reported,
                   env |-> Lacks(BackendKind(sel), env)])

\* The BLUELINK variables are set and createAlertBackend() returns a backend
\* for the selector sel in the environment env, whose destination list holds
\* n entries when it is set: monitorFuel() is called.
Launch(t, sel, env, n) ==
    LET kind == BackendKind(sel)
        made == createAlertBackend(sel, env)
    IN  /\ made.error = "none"
        /\ StartBody(t, IF kind = "console" THEN "console" ELSE "direct",
                     IF kind # "console" /\ env[DestVar(kind)] = "set"
                     THEN n ELSE 0)
        /\ pc' = "login"
        /\ exitCode' = -1
        /\ config' = [error |-> "none", sel |-> sel, reported |-> {},
                      env |-> Lacks(kind, env)]

\* client.on('error'): process.exit(1).
LoginError ==
    /\ pc = "login"
    /\ pc' = "exited"
    /\ exitCode' = 1
    /\ UNCHANGED <<file, testAlert, backend, state, gotRange, currentRange,
                   prior, emitted, sendFailed, saved, prev, hist, attempts,
                   stateNull, summary, config, file0, writeFailed, allSent,
                   thrown, race, aside>>

\* Mutant of Ready: vehicle.status() is awaited without the state having
\* been loaded.
ReadyNoLoad ==
    /\ pc = "login"
    /\ pc' = "awaitStatus"
    /\ UNCHANGED <<file, testAlert, backend, state, prior, stateNull, gotRange,
                   currentRange, exitCode, emitted, sendFailed, saved, prev,
                   hist, attempts, summary, config, file0, writeFailed,
                   allSent, thrown, race, aside>>

\* client.on('ready'): state = loadState(), then vehicle.status() is awaited.
Ready ==
    /\ pc = "login"
    /\ state' = loadState(file)
    /\ prior' = loadState(file)
    /\ stateNull' = loadsNull(file)
    /\ pc' = "awaitStatus"
    /\ UNCHANGED <<file, testAlert, backend, gotRange, currentRange, exitCode,
                   emitted, sendFailed, saved, prev, hist, attempts, summary,
                   config, file0, writeFailed, allSent, thrown, race, aside>>

\* Mutant of StatusFail: the failed read falls through to saveState(state).
StatusFailSaves ==
    /\ pc = "awaitStatus"
    /\ pc' = "exited"
    /\ exitCode' = 1
    /\ file' = [exists |-> TRUE, content |-> "record", data |-> state]
    /\ saved' = TRUE
    /\ UNCHANGED <<testAlert, backend, state, gotRange, currentRange,
                   prior, emitted, sendFailed, prev, hist, attempts,
                   stateNull, summary, config, file0, writeFailed, allSent,
                   thrown, race, aside>>

\* Mutant of StatusFail: the failed read is retried from the login.
StatusFailRetry ==
    /\ pc = "awaitStatus"
    /\ pc' = "login"
    /\ UNCHANGED <<file, testAlert, backend, state, gotRange, currentRange,
                   exitCode, prior, emitted, sendFailed, saved, prev, hist,
                   attempts, stateNull, summary, config, file0, writeFailed,
                   allSent, thrown, race, aside>>

\* vehicle.status() throws (catch) or resolves to nothing: process.exit(1).
StatusFail ==
    /\ pc = "awaitStatus"
    /\ pc' = "exited"
    /\ exitCode' = 1
    /\ UNCHANGED <<file, testAlert, backend, state, gotRange, currentRange,
                   prior, emitted, sendFailed, saved, prev, hist, attempts,
                   stateNull, summary, config, file0, writeFailed, allSent,
                   thrown, race, aside>>

\* Mutant of Finish: saveState has no try/catch, a failed write reaches the
\* handler's catch and the process exits 1 without a summary.
FinishRethrow(s, r, w, e) ==
    LET s2 == [s EXCEPT !.lastRange = r] IN
    /\ state' = s2
    /\ file' = IF w THEN [exists |-> TRUE, content |-> "record", data |-> s2]
               ELSE file
    /\ saved' = w
    /\ writeFailed' = ~w
    /\ summary' = IF w THEN [printed |-> TRUE, alert50Sent |-> s2.alert50Sent,
                             alert15Sent |-> s2.alert15Sent]
                  ELSE summary
    /\ pc' = "exited"
    /\ exitCode' = IF w THEN 0 ELSE 1
    /\ nominal' = (nominal /\ w)
    /\ scenOn' = (scenOn /\ nominal /\ w /\ Len(trace) < Len(ScenarioA)
                    /\ r = ScenarioA[Len(trace) + 1])
    /\ trace' = IF scenOn' THEN Append(trace, e) ELSE <<>>

\* Mutant of Finish: the status summary is not printed.
FinishNoSummary(s, r, w, e) ==
    LET s2 == [s EXCEPT !.lastRange = r] IN
    /\ state' = s2
    /\ file' = IF w THEN [exists |-> TRUE, content |-> "record", data |-> s2]
               ELSE file
    /\ saved' = w
    /\ writeFailed' = ~w
    /\ summary' = summary
    /\ pc' = "exited"
    /\ exitCode' = 0
    /\ nominal' = (nominal /\ w)
    /\ scenOn' = (scenOn /\ nominal /\ w /\ Len(trace) < Len(ScenarioA)
                    /\ r = ScenarioA[Len(trace) + 1])
    /\ trace' = IF scenOn' THEN Append(trace, e) ELSE <<>>

\* Mutant of Finish: lastRange is not updated before the state is saved.
FinishKeepsLastRange(s, r, w, e) ==
    /\ state' = s
    /\ file' = IF w THEN [exists |-> TRUE, content |-> "record", data |-> s]
               ELSE file
    /\ saved' = w
    /\ writeFailed' = ~w
    /\ summary' = [printed |-> TRUE, alert50Sent |-> s.alert50Sent,
                   alert15Sent |-> s.alert15Sent]
    /\ pc' = "exited"
    /\ exitCode' = 0
    /\ nominal' = (nominal /\ w)
    /\ scenOn' = (scenOn /\ nominal /\ w /\ Len(trace) < Len(ScenarioA)
                    /\ r = ScenarioA[Len(trace) + 1])
    /\ trace' = IF scenOn' THEN Append(trace, e) ELSE <<>>

\* Update state, saveState(state), status summary, process.exit(0).
\* s is the local state, r the reading, w tells whether writeFileSync
\* succeeds, e is what this cycle emitted.  saveState catches and logs a
\* failed write, which leaves the file as it was.
Finish(s, r, w, e) ==
    LET s2 == [s EXCEPT !.lastRange = r] IN
    /\ state' = s2
    /\ file' = IF w THEN [exists |-> TRUE, content |-> "record", data |-> s2]
               ELSE file
    /\ saved' = w
    /\ writeFailed' = ~w
    /\ summary' = [printed |-> TRUE, alert50Sent |-> s2.alert50Sent,
                   alert15Sent |-> s2.alert15Sent]
    /\ pc' = "exited"
    /\ exitCode' = 0
    /\ nominal' = (nominal /\ w)
    /\ scenOn' = (scenOn /\ nominal /\ w /\ Len(trace) < Len(ScenarioA)
                    /\ r = ScenarioA[Len(trace) + 1])
    /\ trace' = IF scenOn' THEN Append(trace, e) ELSE <<>>

\* The low check and what follows it; s is the local state after the
\* critical check, r the reading.
LowCheck(s, r, w) ==
    IF LowDue(s, r)
    THEN /\ pc' = "awaitLow"
         /\ state' = s
         /\ emitted' = Append(emitted, "low")
         /\ attempts' = StartDispatch(attempts)
         /\ lowSince' = IF nominal THEN Bump(lowSince) ELSE 0
         /\ UNCHANGED <<file, saved, exitCode, nominal, scenOn, trace,
                        summary, writeFailed>>
    ELSE /\ Finish(s, r, w, emitted)
         /\ lowSince' = IF nominal' /\ r <= THRESHOLD_LOW
                        THEN lowSince ELSE 0
         /\ UNCHANGED <<emitted, attempts>>

\* vehicle.status() resolves with a status whose engine.range is r; the
\* handler runs up to its next await or to its exit.
StatusResolve(r, w) ==
    /\ pc = "awaitStatus"
    /\ gotRange' = TRUE
    /\ currentRange' = r
    /\ IF stateNull
       THEN \* state.lastRange throws a TypeError: catch, process.exit(1)
            /\ pc' = "exited"
            /\ exitCode' = 1
            /\ nominal' = FALSE
            /\ lowSince' = 0
            /\ critSince' = 0
            /\ scenOn' = FALSE
            /\ trace' = <<>>
            /\ UNCHANGED <<file, state, saved, emitted, attempts, summary,
                           writeFailed>>
       ELSE IF testAlert # "none"
       THEN \* TEST MODE: Force an alert for testing
            /\ pc' = "awaitTest"
            /\ emitted' = Append(emitted, TestSeverity(testAlert))
            /\ attempts' = StartDispatch(attempts)
            /\ nominal' = FALSE
            /\ lowSince' = 0
            /\ critSince' = 0
            /\ scenOn' = FALSE
            /\ trace' = <<>>
            /\ UNCHANGED <<file, state, saved, exitCode, summary, writeFailed>>
       ELSE LET s1 == ClearAlerts(state, r) IN
            IF CriticalDue(s1, r)
            THEN /\ pc' = "awaitCritical"
                 /\ state' = s1
                 /\ emitted' = Append(emitted, "critical")
                 /\ attempts' = StartDispatch(attempts)
                 /\ critSince' = IF nominal THEN Bump(critSince) ELSE 0
                 /\ UNCHANGED <<file, saved, exitCode, nominal, lowSince,
                                scenOn, trace, summary, writeFailed>>
            ELSE /\ LowCheck(s1, r, w)
                 /\ critSince' = IF nominal' /\ r <= THRESHOLD_LOW
                                 THEN critSince ELSE 0
    /\ UNCHANGED <<testAlert, backend, prior, sendFailed, prev, stateNull,
                   config, file0, allSent, thrown, race, aside>>

\* The dispatch to destination d settles: client.messages.create or
\* transporter.sendMail resolves (ok) or rejects.  A rejection is rethrown
\* and ends the wait of Promise.all at once.
Deliver(d, ok) ==
    /\ pc \in {"awaitTest", "awaitCritical", "awaitLow"}
    /\ d \in DOMAIN attempts
    /\ attempts[d] = "pending"
    /\ ~SomeFailed(attempts)
    /\ attempts' = [attempts EXCEPT ![d] = IF ok THEN "ok" ELSE "failed"]
    /\ UNCHANGED <<file, pc, testAlert, backend, state, gotRange,
                   currentRange, exitCode, prior, emitted, sendFailed, saved,
                   prev, hist, stateNull, summary, config, file0, writeFailed,
                   allSent, thrown, race, aside>>

\* The awaited sendAlert returns.
SendReturn(w) ==
    /\ pc \in {"awaitTest", "awaitCritical", "awaitLow"}
    /\ AllDelivered(attempts)
    /\ IF pc = "awaitTest"
       THEN /\ pc' = "exited"
            /\ exitCode' = 0
            /\ UNCHANGED <<file, state, saved, emitted, hist, attempts,
                           summary, writeFailed>>
       ELSE IF pc = "awaitCritical"
       THEN /\ LowCheck(MarkSent(state, "critical"), currentRange, w)
            /\ critSince' = IF nominal' THEN critSince ELSE 0
       ELSE /\ Finish(MarkSent(state, "low"), currentRange, w, emitted)
            /\ lowSince' = IF nominal' THEN lowSince ELSE 0
            /\ critSince' = IF nominal' THEN critSince ELSE 0
            /\ UNCHANGED <<emitted, attempts>>
    /\ UNCHANGED <<testAlert, backend, gotRange, currentRange, prior,
                   sendFailed, prev, stateNull, config, file0, allSent,
                   thrown, race, aside>>

\* Promise.all rejects with the reason of the promise that rejected: the
\* error thrown by sendAlert is that of the one failed destination.
FirstRejection(a) == {d \in DOMAIN a : a[d] = "failed"}

\* The awaited sendAlert rejects (a destination failed): the handler's catch
\* logs the error and calls process.exit(1).  The console backend never
\* rejects.
SendReject ==
    /\ pc \in {"awaitTest", "awaitCritical", "awaitLow"}
    /\ backend = "direct"
    /\ SomeFailed(attempts)
    /\ sendFailed' = TRUE
    /\ allSent' = FALSE
    /\ thrown' = FirstRejection(attempts)
    /\ pc' = "exited"
    /\ exitCode' = 1
    /\ nominal' = FALSE
    /\ lowSince' = 0
    /\ critSince' = 0
    /\ scenOn' = FALSE
    /\ trace' = <<>>
    /\ UNCHANGED <<file, testAlert, backend, state, gotRange, currentRange,
                   prior, emitted, saved, prev, attempts, stateNull, summary,
                   config, file0, writeFailed, race, aside>>

Next ==
    \/ \E t \in TestAlerts, b \in Backends, n \in 0..MaxDests :
          StartProcess(t, b, n)
    \/ LoginError
    \/ Ready
    \/ StatusFail
    \/ \E r \in Readings, w \in BOOLEAN : StatusResolve(r, w)
    \/ \E d \in 1..MaxDests, ok \in BOOLEAN : Deliver(d, ok)
    \/ \E w \in BOOLEAN : SendReturn(w)
    \/ SendReject

Spec == Init /\ [][Next]_vars

\* Readings and test overrides of the runs that explore the configuration.
ConfigReadings == {10, 60}

ConfigTestAlerts == {"none", "critical"}

\* Environments in which a backend is launched: nothing absent.
LaunchEnvironments(kind) ==
    {e \in Environments(kind) : \A v \in RequiredVars(kind) : e[v] # "absent"}

\* The monitor run in any environment, complete or not.
NextConfig ==
    \/ \E creds \in SUBSET BluelinkVars : CredentialsExit(creds)
    \/ \E sel \in Selectors : \E env \in Environments(BackendKind(sel)) :
          BackendError(sel, env)
    \/ \E t \in ConfigTestAlerts, sel \in Selectors, n \in 1..MaxDests :
          \E env \in LaunchEnvironments(BackendKind(sel)) :
             Launch(t, sel, env, n)
    \/ LoginError
    \/ Ready
    \/ StatusFail
    \/ \E r \in ConfigReadings, w \in BOOLEAN : StatusResolve(r, w)
    \/ \E d \in 1..MaxDests, ok \in BOOLEAN : Deliver(d, ok)
    \/ \E w \in BOOLEAN : SendReturn(w)
    \/ SendReject

SpecConfig == Init /\ [][NextConfig]_vars

\* A range the vehicle cannot have; the handler takes status.engine.range as
\* it comes.
NegativeReadings == {-5}

\* The monitor, without the test override, when the telematics collaborator
\* may report a negative range.
NextMalformed ==
    \/ \E b \in Backends, n \in 0..MaxDests : StartProcess("none", b, n)
    \/ LoginError
    \/ Ready
    \/ StatusFail
    \/ \E r \in NegativeReadings \cup ConfigReadings, w \in BOOLEAN :
          StatusResolve(r, w)
    \/ \E d \in 1..MaxDests, ok \in BOOLEAN : Deliver(d, ok)
    \/ \E w \in BOOLEAN : SendReturn(w)
    \/ SendReject

SpecMalformed == Init /\ [][NextMalformed]_vars

\* Readings of the runs that are checked for termination: one per band.
LiveReadings == {10, 40, 60}

\* A step of a running invocation: an external call (login, status read, a
\* destination's dispatch) resolves and the handler runs on from it.
StepLive ==
    \/ LoginError
    \/ Ready
    \/ StatusFail
    \/ \E r \in LiveReadings, w \in BOOLEAN : StatusResolve(r, w)
    \/ \E d \in 1..MaxDests, ok \in BOOLEAN : Deliver(d, ok)
    \/ \E w \in BOOLEAN : SendReturn(w)
    \/ SendReject

NextLive ==
    \/ \E t \in ConfigTestAlerts, b \in Backends, n \in 0..MaxDests :
          StartProcess(t, b, n)
    \/ StepLive

\* Every external call of a running invocation eventually resolves, and the
\* event loop then runs the continuation; when the scheduler starts the next
\* invocation is left open.
SpecLive == Init /\ [][NextLive]_vars /\ WF_vars(StepLive)

(***************************************************************************)
(* Two invocations of the monitor that overlap (the scheduler started the  *)
(* second before the first had ended).  Both run the threshold logic with  *)
(* the console backend and share the state file; nothing locks it.         *)
(* fs.writeFileSync opens the file with flag 'w', which truncates it, and  *)
(* then writes from offset 0: the other process may act between the two.   *)
(***************************************************************************)

\* The variables of the single invocation modelled above.
monitor ==
    <<file, pc, testAlert, backend, state, gotRange, currentRange, exitCode,
      prior, emitted, sendFailed, saved, prev, hist, attempts, stateNull,
      summary, config, file0, writeFailed, allSent, thrown>>

\* Readings of the overlapping invocations: critical, low, above low.
RaceReadings == {10, 40, 60}

\* Characters of a number in JSON.
Digits(n) ==
    LET m == IF n < 0 THEN -n ELSE n IN
    (IF n < 0 THEN 1 ELSE 0) + (IF m < 10 THEN 1 ELSE IF m < 100 THEN 2 ELSE 3)

\* Length of JSON.stringify(state, null, 2), less the part that is the same
\* for every state (keys, punctuation, the ISO string of lastCheck): true is
\* 4 characters, false is 5.
RecordLength(s) ==
    (IF s.alert50Sent THEN 4 ELSE 5) + (IF s.alert15Sent THEN 4 ELSE 5)
      + Digits(s.lastRange)

\* Records left by sequential cycles: after reading 60; 40; 10; 40 then 10;
\* 10 then 40.
RaceRecords ==
    { [alert50Sent |-> FALSE, alert15Sent |-> FALSE, lastRange |-> 60],
      [alert50Sent |-> TRUE, alert15Sent |-> FALSE, lastRange |-> 40],
      [alert50Sent |-> FALSE, alert15Sent |-> TRUE, lastRange |-> 10],
      [alert50Sent |-> TRUE, alert15Sent |-> TRUE, lastRange |-> 10],
      [alert50Sent |-> TRUE, alert15Sent |-> TRUE, lastRange |-> 40] }

\* The state file when the two invocations start: absent, or one of those
\* records.
RaceFiles ==
    {NoShared} \cup
    { [exists |-> TRUE, content |-> "record", data |-> d,
       len |-> RecordLength(d)] : d \in RaceRecords }

\* open(STATE_FILE, 'w'): the file exists and is empty, which JSON.parse
\* rejects.
Truncated ==
    [exists |-> TRUE, content |-> "garbage", data |-> DefaultState, len |-> 0]

\* write at offset 0 of the record s into the file f: when f already holds
\* more characters than the record has (the other process wrote after this
\* one truncated), the tail of the other record stays behind it and the text
\* is no longer JSON.
Written(f, s) ==
    IF f.len > RecordLength(s)
    THEN [exists |-> TRUE, content |-> "garbage", data |-> DefaultState,
          len |-> f.len]
    ELSE [exists |-> TRUE, content |-> "record", data |-> s,
          len |-> RecordLength(s)]

InitRace ==
    /\ file = [exists |-> FALSE, content |-> "record", data |-> DefaultState]
    /\ pc = "start"
    /\ testAlert = "none"
    /\ backend = "console"
    /\ state = DefaultState
    /\ gotRange = FALSE
    /\ currentRange = 0
    /\ exitCode = -1
    /\ prior = DefaultState
    /\ emitted = <<>>
    /\ sendFailed = FALSE
    /\ saved = FALSE
    /\ prev = NoPrev
    /\ nominal = TRUE
    /\ lowSince = 0
    /\ critSince = 0
    /\ scenOn = TRUE
    /\ trace = <<>>
    /\ attempts = <<>>
    /\ stateNull = FALSE
    /\ summary = NoSummary
    /\ config = NoConfigError
    /\ file0 = file
    /\ writeFailed = FALSE
    /\ allSent = TRUE
    /\ thrown = {}
    /\ cycles = NoCycles
    /\ shared \in RaceFiles
    /\ entry = NoEntry
    /\ selection = NoSelection

\* client.on('ready') of invocation i: state = loadState().
RaceReady(i) ==
    /\ cycles[i].pc = "login"
    /\ cycles' = [cycles EXCEPT ![i] =
                    [@ EXCEPT !.pc = "awaitStatus",
                              !.state = loadState(shared),
                              !.prior = loadState(shared)]]
    /\ UNCHANGED <<shared, monitor, aside>>

\* Update state and the first half of saveState(state) in invocation i:
\* writeFileSync has opened the file.
RaceSave(i, s, r) ==
    /\ cycles' = [cycles EXCEPT ![i] =
                    [@ EXCEPT !.pc = "opened",
                              !.state = [s EXCEPT !.lastRange = r],
                              !.range = r]]
    /\ shared' = Truncated

\* sendAlert is called with severity sev in invocation i.
RaceSend(i, s, r, sev) ==
    /\ cycles' = [cycles EXCEPT ![i] =
                    [@ EXCEPT !.pc = IF sev = "critical" THEN "awaitCritical"
                                     ELSE "awaitLow",
                              !.state = s,
                              !.range = r,
                              !.emitted = Append(@, sev)]]
    /\ UNCHANGED shared

\* vehicle.status() of invocation i resolves with range r; the handler runs
\* up to its next await or into saveState.
RaceStatus(i, r) ==
    /\ cycles[i].pc = "awaitStatus"
    /\ LET s1 == ClearAlerts(cycles[i].state, r) IN
       IF CriticalDue(s1, r) THEN RaceSend(i, s1, r, "critical")
       ELSE IF LowDue(s1, r) THEN RaceSend(i, s1, r, "low")
       ELSE RaceSave(i, s1, r)
    /\ UNCHANGED <<monitor, aside>>

\* The awaited sendAlert of invocation i returns (the console backend never
\* rejects).
RaceSent(i) ==
    /\ cycles[i].pc \in {"awaitCritical", "awaitLow"}
    /\ LET r == cycles[i].range
           s == MarkSent(cycles[i].state,
                         IF cycles[i].pc = "awaitCritical" THEN "critical"
                         ELSE "low")
       IN  IF cycles[i].pc = "awaitCritical" /\ LowDue(s, r)
           THEN RaceSend(i, s, r, "low")
           ELSE RaceSave(i, s, r)
    /\ UNCHANGED <<monitor, aside>>

\* The second half of saveState(state) in invocation i: the record is
\* written and the file closed; status summary, process.exit(0).
RaceWrite(i) ==
    /\ cycles[i].pc = "opened"
    /\ shared' = Written(shared, cycles[i].state)
    /\ cycles' = [cycles EXCEPT ![i] = [@ EXCEPT !.pc = "exited"]]
    /\ UNCHANGED <<monitor, aside>>

NextRace ==
    \/ \E i \in 1..2 : RaceReady(i)
    \/ \E i \in 1..2, r \in RaceReadings : RaceStatus(i, r)
    \/ \E i \in 1..2 : RaceSent(i)
    \/ \E i \in 1..2 : RaceWrite(i)

SpecRace == InitRace /\ [][NextRace]_vars

(***************************************************************************)
(* The container's entrypoint (deployment/entrypoint.sh), a bash script    *)
(* run under set -e: it checks that /app/.env exists, sources it, checks   *)
(* the three BLUELINK variables, runs monitor-fuel.ts once, and starts the *)
(* cron daemon, which runs monitor-fuel.ts on the schedule of the crontab. *)
(***************************************************************************)

\* No process has run: every variable of the monitor but the state file.
AtStart ==
    /\ pc = "start"
    /\ testAlert = "none"
    /\ backend = "console"
    /\ state = DefaultState
    /\ gotRange = FALSE
    /\ currentRange = 0
    /\ exitCode = -1
    /\ prior = DefaultState
    /\ emitted = <<>>
    /\ sendFailed = FALSE
    /\ saved = FALSE
    /\ prev = NoPrev
    /\ nominal = ~file.exists
    /\ lowSince = 0
    /\ critSince = 0
    /\ scenOn = ~file.exists
    /\ trace = <<>>
    /\ attempts = <<>>
    /\ stateNull = FALSE
    /\ summary = NoSummary
    /\ config = NoConfigError
    /\ file0 = file
    /\ writeFailed = FALSE
    /\ allSent = TRUE
    /\ thrown = {}
    /\ cycles = NoCycles
    /\ shared = NoShared

\* The container starts with or without /app/.env; set holds the BLUELINK
\* variables that are non-empty in the shell once .env has been sourced.
EntryStarts ==
    { [NoEntry EXCEPT !.envFile = e, !.set = v] :
         e \in BOOLEAN, v \in SUBSET BluelinkVars }

InitEntry ==
    /\ file \in InitialFiles
    /\ AtStart
    /\ entry \in EntryStarts
    /\ selection = NoSelection

\* if [ ! -f /app/.env ]: the error is printed, exit 1.
EntryEnvFile ==
    /\ entry.pc = "start"
    /\ entry' = IF entry.envFile THEN [entry EXCEPT !.pc = "validate"]
                ELSE [entry EXCEPT !.pc = "exited", !.code = 1]
    /\ UNCHANGED <<monitor, race, selection>>

\* . /app/.env, then the test of the three BLUELINK variables with -z: one
\* of them empty, exit 1.
EntryValidate ==
    /\ entry.pc = "validate"
    /\ entry' = IF entry.set = BluelinkVars THEN [entry EXCEPT !.pc = "check"]
                ELSE [entry EXCEPT !.pc = "exited", !.code = 1]
    /\ UNCHANGED <<monitor, race, selection>>

\* npx tsx monitor-fuel.ts, the initial check: the monitor is started once,
\* with the BLUELINK variables set; createAlertBackend() may still throw.
EntryInitialCheck ==
    /\ entry.pc = "check"
    /\ pc = "start"
    /\ \/ \E t \in ConfigTestAlerts, b \in Backends, n \in 0..MaxDests :
             StartProcess(t, b, n)
       \/ \E sel \in Selectors : \E env \in Environments(BackendKind(sel)) :
             BackendError(sel, env)

\* Mutant of EntryChecked: the exit code of the initial check is ignored.
EntryCheckedAnyCode ==
    /\ entry.pc = "check"
    /\ pc = "exited"
    /\ entry' = [entry EXCEPT !.pc = "cron"]
    /\ UNCHANGED <<monitor, race, selection>>

\* The initial check has ended.  With exit code 0 the script goes on; with
\* any other code set -e ends the script at once with that code (the else
\* branch, exit 1, is not reached).
EntryChecked ==
    /\ entry.pc = "check"
    /\ pc = "exited"
    /\ entry' = IF exitCode = 0 THEN [entry EXCEPT !.pc = "cron"]
                ELSE [entry EXCEPT !.pc = "exited", !.code = exitCode]
    /\ UNCHANGED <<monitor, race, selection>>

\* touch of the log file, then cron && tail -f: the daemon runs and the
\* script stays in tail.
EntryCron ==
    /\ entry.pc = "cron"
    /\ entry' = [entry EXCEPT !.pc = "tail", !.cron = TRUE]
    /\ UNCHANGED <<monitor, race, selection>>

\* The cron daemon runs the line of the crontab: a scheduled cycle of the
\* monitor, of which only the count is kept here.
CronRun ==
    /\ entry.cron
    /\ entry.runs < MaxRuns
    /\ entry' = [entry EXCEPT !.runs = @ + 1]
    /\ UNCHANGED <<monitor, race, selection>>

\* A step of the script, or of the monitor it waits for.
StepEntry ==
    \/ EntryEnvFile
    \/ EntryValidate
    \/ EntryInitialCheck
    \/ EntryChecked
    \/ EntryCron
    \/ LoginError
    \/ Ready
    \/ StatusFail
    \/ \E r \in ConfigReadings, w \in BOOLEAN : StatusResolve(r, w)
    \/ \E d \in 1..MaxDests, ok \in BOOLEAN : Deliver(d, ok)
    \/ \E w \in BOOLEAN : SendReturn(w)
    \/ SendReject

NextEntry ==
    \/ StepEntry
    \/ CronRun

\* The shell runs the script line by line, and the external calls of the
\* initial check resolve; when cron fires is left open.
SpecEntry == InitEntry /\ [][NextEntry]_vars /\ WF_vars(StepEntry)

(***************************************************************************)
(* createAlertBackend() as a function of the raw value of ALERT_BACKEND    *)
(* and of the whole environment, and a sendAlert call on what it returns.  *)
(***************************************************************************)

\* Raw values of process.env.ALERT_BACKEND: "unset" is undefined, "" the
\* empty string; the others are taken as they are written.
RawSelectors ==
    {"unset", "", "console", "Console", "twilio-trial", "Twilio-Trial",
     "sms", "SMS", "twilio", "TWILIO", "twilio-paid", "tmobile-email",
     "email", "Email", "sns", "SNS", "slack", "sms "}

\* Mutant of toLowerCase: the selector is compared as it is written.
toLowerCaseIdentity(raw) == raw

\* String.prototype.toLowerCase on the raw values.
toLowerCase(raw) ==
    CASE raw = "Console" -> "console"
      [] raw = "Twilio-Trial" -> "twilio-trial"
      [] raw = "SMS" -> "sms"
      [] raw = "TWILIO" -> "twilio"
      [] raw = "Email" -> "email"
      [] raw = "SNS" -> "sns"
      [] OTHER -> raw

\* (process.env.ALERT_BACKEND || 'console').toLowerCase(): undefined and the
\* empty string are falsy.
SelectorOf(raw) ==
    IF raw \in {"unset", ""} THEN toLowerCase("console") ELSE toLowerCase(raw)

\* The whole environment createAlertBackend() can read: every variable of
\* every backend, absent or set, the destination lists possibly blank.
WholeEnvironments ==
    {e \in [TwilioVars \cup EmailVars -> {"absent", "blank", "set"}] :
        \A v \in TwilioVars \cup EmailVars :
           e[v] = "blank" => v \in {"TWILIO_TO_PHONE", "TMOBILE_PHONES"}}

InitSelect ==
    /\ file = [exists |-> FALSE, content |-> "record", data |-> DefaultState]
    /\ AtStart
    /\ entry = NoEntry
    /\ selection \in
          { [NoSelection EXCEPT !.raw = raw, !.env = env] :
               raw \in RawSelectors, env \in WholeEnvironments }

\* const alertBackend = createAlertBackend().
SelectBackend ==
    /\ ~selection.called
    /\ selection' =
          [selection EXCEPT
              !.called = TRUE,
              !.made = createAlertBackend(SelectorOf(selection.raw),
                                          selection.env)]
    /\ UNCHANGED <<monitor, race, entry>>

\* alertBackend.sendAlert(message) on the backend that was returned: the
\* console logger only calls console.log and resolves; a direct-message
\* backend resolves or rejects.
SelectSendAlert(ok) ==
    /\ selection.called
    /\ selection.made.error = "none"
    /\ selection.sent = "none"
    /\ selection' =
          [selection EXCEPT
              !.sent = IF selection.made.kind = "console" \/ ok
                       THEN "ok" ELSE "rejected"]
    /\ UNCHANGED <<monitor, race, entry>>

NextSelect ==
    \/ SelectBackend
    \/ \E ok \in BOOLEAN : SelectSendAlert(ok)

SpecSelect == InitSelect /\ [][NextSelect]_vars

(***************************************************************************)
(* Properties of the threshold logic.                                      *)
(***************************************************************************)

\* The cycle obtained a reading and ran the threshold logic on it.
ThresholdCycle == gotRange /\ testAlert = "none" /\ ~stateNull

\* The cycle ran to its end (process.exit(0) after the status summary).
Completed == pc = "exited" /\ exitCode = 0

\* The previous cycle ran the threshold logic and wrote the state file.
PrevSaved == prev.hasRange /\ prev.test = "none" /\ prev.saved

BothClear(s) == ~s.alert50Sent /\ ~s.alert15Sent

\* C1: in a cycle whose reading is above the low threshold, whatever state
\* was loaded, sendAlert is never called, the cycle runs to its end and ends
\* with both flags false (in the local state, and in the file when the write
\* succeeded).
C1_RecoveryClearsFlags ==
    (ThresholdCycle /\ currentRange > THRESHOLD_LOW) =>
        /\ emitted = <<>>
        /\ Completed
        /\ BothClear(state)
        /\ saved => (file.exists /\ BothClear(file.data))

C1_Witness ==
    /\ ThresholdCycle /\ currentRange > THRESHOLD_LOW /\ Completed
    /\ prior.alert50Sent /\ prior.alert15Sent /\ saved

\* C2: in a cycle whose reading is at or below the critical threshold and
\* whose loaded state has alert15Sent false (whatever alert50Sent is),
\* sendAlert is called exactly once, with severity critical; when the cycle
\* runs to its end alert15Sent is true (in the local state, and in the file
\* when the write succeeded).
C2_CriticalFiresOnce ==
    (ThresholdCycle /\ currentRange <= THRESHOLD_CRITICAL /\ ~prior.alert15Sent) =>
        /\ emitted = <<"critical">>
        /\ Completed => state.alert15Sent
        /\ (Completed /\ saved) => (file.exists /\ file.data.alert15Sent)

C2_Witness ==
    /\ ThresholdCycle /\ currentRange = THRESHOLD_CRITICAL /\ Completed
    /\ ~prior.alert15Sent /\ prior.alert50Sent
    /\ emitted = <<"critical">> /\ state.alert15Sent /\ saved

\* C3: in a cycle whose reading is in the low band (15 < range <= 50) and
\* whose loaded state has alert50Sent false, sendAlert is called exactly
\* once, with severity low; when the cycle runs to its end alert50Sent is
\* true (in the local state, and in the file when the write succeeded).
C3_LowFiresOnce ==
    (ThresholdCycle /\ currentRange > THRESHOLD_CRITICAL
       /\ currentRange <= THRESHOLD_LOW /\ ~prior.alert50Sent) =>
        /\ emitted = <<"low">>
        /\ Completed => state.alert50Sent
        /\ (Completed /\ saved) => (file.exists /\ file.data.alert50Sent)

C3_Witness ==
    /\ ThresholdCycle /\ currentRange = 40 /\ Completed
    /\ ~prior.alert50Sent /\ prior.alert15Sent
    /\ emitted = <<"low">> /\ state.alert50Sent /\ saved

\* C4: a cycle without the test override calls sendAlert at most once: the
\* critical branch and the low branch never both fire.
C4_AtMostOneNotification ==
    testAlert = "none" =>
        /\ Len(emitted) <= 1
        /\ ~(\E i, j \in 1..Len(emitted) :
                emitted[i] = "critical" /\ emitted[j] = "low")

C4_Witness ==
    /\ ThresholdCycle /\ Completed /\ currentRange <= THRESHOLD_CRITICAL
    /\ BothClear(prior) /\ emitted = <<"critical">>

\* C5: in a run of threshold cycles from the default state in which every
\* sendAlert returned and every write succeeded, at most one low and at most
\* one critical notification are emitted between two readings above the low
\* threshold.
C5_OnePerEpisode == nominal => (lowSince <= 1 /\ critSince <= 1)

C5_Witness ==
    /\ nominal /\ lowSince = 1 /\ critSince = 1
    /\ ThresholdCycle /\ Completed /\ currentRange <= THRESHOLD_LOW
    /\ emitted = <<>> /\ prev.emitted = <<>> /\ PrevSaved
    /\ prev.range <= THRESHOLD_LOW

\* C6: in such a run, a reading at or below the critical threshold that
\* arrives when no critical notification was emitted since the last reading
\* above the low threshold makes the cycle call sendAlert with severity
\* critical, whatever alert50Sent is.
C6_CriticalNeverSuppressed ==
    [][(pc = "awaitStatus" /\ gotRange' /\ testAlert = "none" /\ nominal
          /\ currentRange' <= THRESHOLD_CRITICAL /\ critSince = 0)
        => (emitted' = <<"critical">> /\ critSince' = 1)]_vars

C6_Witness ==
    /\ nominal /\ ThresholdCycle /\ currentRange <= THRESHOLD_CRITICAL
    /\ prior.alert50Sent /\ lowSince = 1 /\ critSince = 1
    /\ emitted = <<"critical">> /\ Completed

\* C7: a cycle that has the same reading as the previous cycle and starts
\* from the state the previous cycle saved calls sendAlert for no severity.
C7_Idempotent ==
    (ThresholdCycle /\ PrevSaved /\ prev.range = currentRange) =>
        emitted = <<>>

C7_Witness ==
    /\ ThresholdCycle /\ PrevSaved /\ prev.range = currentRange /\ Completed
    /\ prev.emitted = <<"critical">> /\ emitted = <<>>

\* What scenario A expects the five cycles to emit.
ExpectedA == << <<>>, <<"low">>, <<>>, <<"critical">>, <<>> >>

\* C8: from the default state, with every sendAlert returning and every
\* write succeeding, the readings 80, 40, 40, 10, 60 emit low in cycle 2,
\* critical in cycle 4, nothing in cycles 1, 3 and 5, and both flags are
\* false after cycle 5.
C8_ScenarioA ==
    scenOn =>
        /\ trace = SubSeq(ExpectedA, 1, Len(trace))
        /\ Len(trace) = Len(ScenarioA) =>
              (BothClear(state) /\ file.exists /\ BothClear(file.data))

C8_Witness == scenOn /\ Len(trace) = Len(ScenarioA) /\ Completed

\* C9: a cycle with a reading at or below the critical threshold that
\* follows a cycle with a reading above the low threshold (whose state was
\* saved) calls sendAlert once, with severity critical and never low,
\* whatever the flags were before the first cycle; when it runs to its end
\* alert15Sent is true and alert50Sent is false.
C9_RecoveryThenRedrop ==
    (ThresholdCycle /\ currentRange <= THRESHOLD_CRITICAL
       /\ PrevSaved /\ prev.range > THRESHOLD_LOW) =>
        /\ emitted = <<"critical">>
        /\ Completed => (state.alert15Sent /\ ~state.alert50Sent)
        /\ (Completed /\ saved) =>
              (file.data.alert15Sent /\ ~file.data.alert50Sent)

C9_Witness ==
    /\ ThresholdCycle /\ currentRange = 10 /\ PrevSaved /\ prev.range = 200
    /\ prev.prior.alert50Sent /\ prev.prior.alert15Sent
    /\ Completed /\ saved /\ emitted = <<"critical">>

\* C10: a reading equal to the low threshold is in the alerting band (low
\* is emitted when alert50Sent is false, and no flag is cleared); a reading
\* of the low threshold plus one emits nothing and clears both flags; a
\* reading equal to the critical threshold is handled as critical, never as
\* low.
C10_Boundaries ==
    ThresholdCycle =>
        /\ currentRange = THRESHOLD_LOW =>
              /\ ~prior.alert50Sent => emitted = <<"low">>
              /\ prior.alert50Sent => (emitted = <<>> /\ state.alert50Sent)
              /\ prior.alert15Sent => state.alert15Sent
        /\ currentRange = THRESHOLD_LOW + 1 =>
              (emitted = <<>> /\ Completed /\ BothClear(state))
        /\ currentRange = THRESHOLD_CRITICAL =>
              /\ ~prior.alert15Sent => emitted = <<"critical">>
              /\ prior.alert15Sent => emitted = <<>>
              /\ Completed => state.alert15Sent

C10_Witness ==
    /\ ThresholdCycle /\ currentRange = THRESHOLD_LOW /\ Completed
    /\ ~prior.alert50Sent /\ prior.alert15Sent
    /\ emitted = <<"low">> /\ state.alert50Sent /\ state.alert15Sent

(***************************************************************************)
(* Properties of the failure handling.                                     *)
(***************************************************************************)

FlagOf(s, sev) == IF sev = "critical" THEN s.alert15Sent ELSE s.alert50Sent

\* The band a reading falls in: the severity it alerts with, or none.
Band(r) ==
    IF r > THRESHOLD_LOW THEN "none"
    ELSE IF r <= THRESHOLD_CRITICAL THEN "critical" ELSE "low"

\* The previous invocation obtained a reading and ran the threshold logic.
PrevThreshold == prev.hasRange /\ prev.test = "none"

\* C11: when the threshold logic calls sendAlert and the call fails, the
\* cycle still calls saveState, with the flag of the attempted severity set.
C11_FailedDispatchStillPersists ==
    (sendFailed /\ testAlert = "none" /\ pc = "exited") =>
        /\ saved \/ writeFailed
        /\ FlagOf(state, emitted[Len(emitted)])
        /\ saved => FlagOf(file.data, emitted[Len(emitted)])

\* C12: after a cycle whose sendAlert for a severity failed, a following
\* cycle whose reading is in the same band does not call sendAlert for that
\* severity.
C12_FailedDispatchNotRetried ==
    (ThresholdCycle /\ PrevThreshold /\ prev.sendFailed
       /\ Band(prev.range) = Band(currentRange)) =>
        \A i \in 1..Len(emitted) : emitted[i] # prev.emitted[Len(prev.emitted)]

\* C13: a cycle in which the delivery fails ends with exit code 0.
C13_FailedDispatchExitsZero ==
    (sendFailed /\ pc = "exited") => exitCode = 0

\* C14: when only state writes fail (no sendAlert call has failed), a
\* reading in the low or the critical band that follows a reading above the
\* low threshold makes the cycle emit a notification of that severity.
C14_LostWriteNeverMissesAlert ==
    (ThresholdCycle /\ allSent /\ PrevThreshold
       /\ prev.range > THRESHOLD_LOW /\ Band(currentRange) # "none") =>
        emitted = <<Band(currentRange)>>

C16_BadRecordLoadsDefault ==
    (pc \in {"awaitStatus", "awaitTest", "awaitCritical", "awaitLow", "exited"}
       /\ config.error = "none" /\ (~file0.exists \/ file0.content # "record")) =>
        /\ ~stateNull
        /\ prior = DefaultState
        /\ (pc = "exited" /\ gotRange /\ ~sendFailed) => exitCode = 0

\* C17: when the telematics read fails (login error, status() throws or
\* returns nothing) the process exits non-zero, sendAlert is never called,
\* no dispatch is started, saveState is never called and the state file is
\* what it was when the process started.
C17_ReadFailureTouchesNothing ==
    (pc = "exited" /\ ~gotRange /\ config.error = "none") =>
        /\ exitCode = 1
        /\ emitted = <<>>
        /\ \A d \in DOMAIN attempts : attempts[d] = "idle"
        /\ ~saved /\ ~writeFailed
        /\ file = file0

C17_Witness ==
    /\ pc = "exited" /\ ~gotRange /\ config.error = "none"
    /\ file.exists /\ file.content = "record"
    /\ prior.alert15Sent /\ backend = "direct"

\* C18: with TEST_ALERT set, a cycle that obtained a reading calls sendAlert
\* exactly once, with the forced severity, whatever the reading and the
\* loaded flags; the threshold logic does not run (the local state stays
\* what was loaded), saveState is never called and the state file is what it
\* was when the process started; the process exits 0 once sendAlert returns.
C18_TestOverride ==
    (testAlert # "none" /\ gotRange /\ ~stateNull) =>
        /\ Len(emitted) = 1
        /\ testAlert = "critical" => emitted = <<"critical">>
        /\ testAlert = "low" => emitted = <<"low">>
        /\ state = prior
        /\ ~saved /\ ~writeFailed /\ ~summary.printed
        /\ file = file0
        /\ (pc = "exited" /\ ~sendFailed) => exitCode = 0

C18_Witness ==
    /\ testAlert = "critical" /\ gotRange /\ currentRange > THRESHOLD_LOW
    /\ prior.alert15Sent /\ prior.alert50Sent
    /\ pc = "exited" /\ exitCode = 0 /\ emitted = <<"critical">>

\* C19: when a direct-message backend is selected and a variable it requires
\* is absent, or its destination list is empty after split and trim, the
\* process ends with a non-zero code in createAlertBackend: no login, no
\* status read, no load or save of the state, no dispatch; and every missing
\* variable is logged.
C19_ConstructionFailsFast ==
    (config.env.direct /\ (config.env.missing # {} \/ config.env.blankDest)) =>
        /\ config.error \in {"missing", "empty"}
        /\ pc = "exited" /\ exitCode = 1
        /\ backend = "none"
        /\ ~gotRange /\ emitted = <<>> /\ attempts = <<>>
        /\ ~saved /\ ~writeFailed /\ file = file0
        /\ config.env.missing # {} => config.reported = config.env.missing

C19_Witness ==
    /\ config.error = "missing" /\ Cardinality(config.env.missing) >= 2
    /\ config.env.blankDest /\ pc = "exited" /\ file.exists

\* C20: the sendAlert of a direct-message backend returns only when the
\* dispatch to every destination succeeded, and throws when the dispatch to
\* some destination failed.
C20_SendSucceedsIffAllSucceed ==
    (backend = "direct" /\ emitted # <<>> /\ pc = "exited") =>
        /\ ~sendFailed <=> (\A d \in DOMAIN attempts : attempts[d] = "ok")
        /\ sendFailed <=> (\E d \in DOMAIN attempts : attempts[d] = "failed")

C20_Witness ==
    /\ backend = "direct" /\ emitted # <<>> /\ pc = "exited" /\ sendFailed
    /\ \E d, e \in DOMAIN attempts : attempts[d] = "ok" /\ attempts[e] = "failed"

(***************************************************************************)
(* Properties of the fan-out and of the outcome of the process.            *)
(***************************************************************************)

\* sendAlert has been called in this cycle on a direct-message backend.
Dispatching == backend = "direct" /\ emitted # <<>>

\* C21: once sendAlert is called on a direct-message backend, a dispatch has
\* been started for every destination; none is left unstarted, whichever
\* attempt settles first and whether it fails or succeeds.
C21_NoShortCircuit ==
    Dispatching => \A d \in DOMAIN attempts : attempts[d] # "idle"

C21_Witness ==
    /\ Dispatching /\ Len(attempts) = MaxDests
    /\ attempts[1] = "pending" /\ attempts[MaxDests] = "failed"

\* C22: in a cycle on a direct-message backend with two destinations in
\* which one dispatch fails, the dispatch to the other destination runs to
\* its end: when the process has exited no attempt is left in flight.
C22_OtherDispatchCompletes ==
    (backend = "direct" /\ Len(attempts) = 2 /\ pc = "exited"
       /\ \E d \in DOMAIN attempts : attempts[d] = "failed") =>
        \A d \in DOMAIN attempts : attempts[d] # "pending"

\* sendAlert has reported to the handler: it returned, or it threw.
Reported ==
    /\ Dispatching
    /\ pc \notin {"awaitTest", "awaitCritical", "awaitLow"}

\* C27: the sendAlert of a direct-message backend reports its result,
\* success or failure, only when the dispatch to every destination has
\* settled.
C27_JoinsEveryAttempt ==
    Reported => \A d \in DOMAIN attempts : attempts[d] \in {"ok", "failed"}

\* C28: the error thrown by a failed sendAlert carries the outcome of every
\* destination of the backend.
C28_FailureCarriesEveryOutcome ==
    (backend = "direct" /\ sendFailed) => thrown = DOMAIN attempts

\* C23: a process that ended exited with a non-zero code when required
\* configuration was missing and when no range reading was obtained, and
\* with code 0 when the cycle ran to its end: it obtained a reading, loaded
\* a state record and no sendAlert call rejected, whether or not an alert was
\* sent and whether or not the write of the state succeeded.
C23_ExitCodes ==
    pc = "exited" =>
        /\ config.error # "none" => exitCode # 0
        /\ (config.error = "none" /\ ~gotRange) => exitCode # 0
        /\ (gotRange /\ ~stateNull /\ ~sendFailed) => exitCode = 0

C23_Witness ==
    /\ pc = "exited" /\ exitCode = 0 /\ config.sel = "email"
    /\ emitted = <<"critical">> /\ writeFailed /\ ~prev.hasRange
    /\ file0.exists /\ file0.content = "record"

\* C24, as stated: every cycle that ended has printed the status summary,
\* whatever its outcome.
C24_SummaryAlways ==
    (pc = "exited" /\ config.error = "none") => summary.printed

\* C24, amended: a cycle that ended has printed the status summary exactly
\* when it ran the threshold logic to its end (no sendAlert call rejected),
\* and the summary shows the flags of the local state; a cycle that ended in
\* a telematics failure, in the test override or in a rejected sendAlert has
\* printed none.
C24_SummaryOnNormalEnd ==
    pc = "exited" =>
        /\ summary.printed <=>
              (gotRange /\ testAlert = "none" /\ ~stateNull /\ ~sendFailed)
        /\ summary.printed =>
              /\ summary.alert50Sent = state.alert50Sent
              /\ summary.alert15Sent = state.alert15Sent

C24_Witness ==
    /\ pc = "exited" /\ summary.printed /\ summary.alert50Sent
    /\ summary.alert15Sent /\ emitted = <<"low">>
    /\ prev.test = "critical" /\ prev.hasRange /\ ~prev.sendFailed

\* C29: a negative reading is rejected before the threshold logic runs: the
\* cycle calls sendAlert for no severity, changes no flag and does not save.
C29_MalformedRejected ==
    (gotRange /\ testAlert = "none" /\ ~stateNull /\ currentRange < 0) =>
        /\ emitted = <<>>
        /\ state.alert50Sent = prior.alert50Sent
        /\ state.alert15Sent = prior.alert15Sent
        /\ ~saved /\ ~writeFailed

\* C26: every documented selector other than console chooses a
\* direct-message backend, ALERT_BACKEND=sns included; only console, or no
\* selector, chooses the console logger.
C26_SelectorChoosesVariant ==
    (config.error = "none" /\ config.sel # "none") =>
        (backend = "direct" <=> config.sel \notin {"unset", "console"})

\* The flags of the persisted record; an absent or unreadable file stands
\* for the default state.
Persisted == loadState(file)

\* A notification of severity sev went out in this cycle: the console backend
\* logged it, or the dispatch to some destination succeeded.
SentNow(sev) ==
    /\ \E i \in 1..Len(emitted) : emitted[i] = sev
    /\ backend = "console" \/ \E d \in DOMAIN attempts : attempts[d] = "ok"

\* C30, read where a threshold cycle has ended, under any pattern of dispatch
\* and write failures: after a reading above the low threshold (nothing has
\* been sent since) both persisted flags are false, and after a cycle that
\* sent a notification of a severity the persisted flag of that severity is
\* true.
C30_FlagsMirrorNotifications ==
    (pc = "exited" /\ gotRange /\ testAlert = "none" /\ ~stateNull) =>
        /\ currentRange > THRESHOLD_LOW =>
              (~Persisted.alert50Sent /\ ~Persisted.alert15Sent)
        /\ SentNow("low") => Persisted.alert50Sent
        /\ SentNow("critical") => Persisted.alert15Sent

\* Both overlapping invocations have ended.
BothEnded == \A i \in 1..2 : cycles[i].pc = "exited"

\* The two invocations sent a notification of the same severity for the same
\* episode.
RaceDuplicate ==
    /\ BothEnded
    /\ cycles[1].emitted = <<"critical">> /\ cycles[2].emitted = <<"critical">>

\* The flag one invocation set is not in the record the other one left,
\* although no reading was above the low threshold.
RaceLostUpdate ==
    /\ BothEnded /\ shared.content = "record"
    /\ \E i \in 1..2 :
          /\ cycles[i].emitted = <<"critical">>
          /\ cycles[3 - i].range <= THRESHOLD_LOW
          /\ ~shared.data.alert15Sent

\* C25: when two overlapping invocations have ended, the state file holds
\* the complete record one of them wrote, never a mixture of the two and
\* never text that does not parse.
C25_RaceKeepsRecordWhole ==
    BothEnded =>
        /\ shared.exists /\ shared.content = "record"
        /\ \E i \in 1..2 : shared.data = cycles[i].state

(***************************************************************************)
(* Properties of the cycle as a whole: provenance of the flags, order of   *)
(* the steps, the writes of the state file, termination.                   *)
(***************************************************************************)

\* C31: alert15Sent becomes true, in the local state and in the state file,
\* only in a threshold cycle whose reading is at or below the critical
\* threshold and that called sendAlert('critical'); a record whose
\* alert15Sent is true holds a lastRange at or below the low threshold; and
\* where a threshold cycle whose reading is above the low threshold has run
\* to its end, both flags are false (in the file when the write succeeded).
C31_CriticalFlagProvenance ==
    /\ (~stateNull /\ state.alert15Sent /\ ~prior.alert15Sent) =>
          /\ ThresholdCycle
          /\ currentRange <= THRESHOLD_CRITICAL
          /\ emitted = <<"critical">>
    /\ (loadState(file).alert15Sent /\ ~loadState(file0).alert15Sent) =>
          /\ ThresholdCycle /\ saved
          /\ currentRange <= THRESHOLD_CRITICAL
    /\ loadState(file).alert15Sent =>
          loadState(file).lastRange <= THRESHOLD_LOW
    /\ (Completed /\ ThresholdCycle /\ currentRange > THRESHOLD_LOW) =>
          /\ BothClear(state)
          /\ saved => BothClear(file.data)

\* A cycle that follows a saved reading above the low threshold sets
\* alert15Sent and writes it.
C31_Witness ==
    /\ Completed /\ ThresholdCycle /\ saved
    /\ state.alert15Sent /\ ~prior.alert15Sent
    /\ PrevSaved /\ prev.range > THRESHOLD_LOW

\* A threshold cycle of a run without failures whose reading is in the low
\* band, in an episode (no reading above the low threshold since) in which
\* a critical notification has been sent.
LowAfterCritical ==
    /\ ThresholdCycle /\ nominal /\ critSince >= 1
    /\ currentRange > THRESHOLD_CRITICAL /\ currentRange <= THRESHOLD_LOW

\* C32 as stated: once a critical notification has been sent in the episode,
\* a later reading in the low band emits no notification.
C32_CriticalSilencesLow == LowAfterCritical => emitted = <<>>

\* C32, amended: a reading in the low band that follows a critical
\* notification of the same episode emits the low notification when
\* alert50Sent is false and nothing when it is true, so that the episode has
\* had exactly one low notification by then; alert15Sent plays no part.
C32_LowFollowsCriticalOnce ==
    LowAfterCritical =>
        /\ emitted = IF prior.alert50Sent THEN <<>> ELSE <<"low">>
        /\ prior.alert15Sent
        /\ lowSince = 1

\* The low notification goes out after the critical one of the same episode.
C32_Witness ==
    /\ LowAfterCritical /\ Completed /\ saved
    /\ emitted = <<"low">> /\ BothClear(state) = FALSE
    /\ PrevSaved /\ prev.emitted = <<"critical">>

\* The handler is waiting for a sendAlert call to return.
AwaitingSend == pc \in {"awaitTest", "awaitCritical", "awaitLow"}

\* saveState has been called in this cycle.
SaveCalled == saved \/ writeFailed

Decision(r, f50, f15) ==
    IF r > THRESHOLD_LOW
    THEN [emit |-> <<>>, alert50Sent |-> FALSE, alert15Sent |-> FALSE]
    ELSE IF r <= THRESHOLD_CRITICAL
    THEN [emit |-> IF f15 THEN <<>> ELSE <<"critical">>,
          alert50Sent |-> f50, alert15Sent |-> TRUE]
    ELSE [emit |-> IF f50 THEN <<>> ELSE <<"low">>,
          alert50Sent |-> TRUE, alert15Sent |-> f15]

\* The previous cycle and this one agree on the reading and on the loaded
\* flags.
SameInputsAsPrev ==
    /\ PrevThreshold /\ prev.range = currentRange
    /\ prev.prior.alert50Sent = prior.alert50Sent
    /\ prev.prior.alert15Sent = prior.alert15Sent

\* C35: what a threshold cycle emits, and the flags it ends with, are given
\* by the reading and the two loaded flags alone, whatever lastRange was
\* loaded; two successive cycles that agree on the reading and on the loaded
\* flags emit the same notification.
C35_DecisionIgnoresLastRange ==
    /\ ThresholdCycle =>
          emitted = Decision(currentRange, prior.alert50Sent,
                             prior.alert15Sent).emit
    /\ (ThresholdCycle /\ Completed) =>
          LET d == Decision(currentRange, prior.alert50Sent,
                            prior.alert15Sent) IN
          /\ state.alert50Sent = d.alert50Sent
          /\ state.alert15Sent = d.alert15Sent
    /\ (ThresholdCycle /\ SameInputsAsPrev) => emitted = prev.emitted

\* Two successive cycles with the same reading and the same loaded flags,
\* but different loaded lastRange values, have both run to their end.
C35_Witness ==
    /\ ThresholdCycle /\ Completed /\ SameInputsAsPrev
    /\ prev.prior.lastRange # prior.lastRange
    /\ prior.alert15Sent /\ currentRange <= THRESHOLD_CRITICAL

\* How far the handler of an invocation has come.
Rank(p) ==
    CASE p = "start" -> 0
      [] p = "login" -> 1
      [] p = "awaitStatus" -> 2
      [] p = "awaitTest" -> 3
      [] p = "awaitCritical" -> 3
      [] p = "awaitLow" -> 4
      [] p = "exited" -> 5

\* C36: when every external call eventually resolves, every invocation of
\* the monitor eventually ends with an exit code (0 or 1), and between its
\* start and its exit it only moves forward: no step of the cycle is
\* executed twice.
C36_InvocationTerminates ==
    /\ [](pc = "exited" <=> exitCode \in {0, 1})
    /\ [][pc' # pc =>
            \/ Rank(pc') > Rank(pc)
            \/ pc = "exited" /\ pc' = "login"]_vars
    /\ (pc \notin {"start", "exited"}) ~> (pc = "exited")

\* An invocation whose login, status read and two dispatches all resolved
\* has ended.
C36_Witness ==
    /\ pc = "exited" /\ exitCode = 0 /\ gotRange
    /\ backend = "direct" /\ Len(attempts) = 2 /\ AllDelivered(attempts)
    /\ emitted = <<"critical">>

\* One of the three conditions of the entrypoint has failed: no .env file, a
\* BLUELINK variable that is empty, or an initial check that ended with an
\* exit code other than 0.
EntryFailed ==
    \/ ~entry.envFile
    \/ entry.set # BluelinkVars
    \/ pc = "exited" /\ exitCode # 0

\* C37: the cron daemon runs only when .env exists, the three BLUELINK
\* variables are non-empty and the initial cycle of the monitor has exited
\* with code 0, and a scheduled cycle runs only when the daemon runs; when
\* one of the three fails the daemon is not started, no scheduled cycle
\* runs, and the entrypoint exits with a code other than 0.
C37_CronOnlyAfterInitialCheck ==
    /\ [](entry.cron =>
            /\ entry.envFile /\ entry.set = BluelinkVars
            /\ pc = "exited" /\ exitCode = 0)
    /\ [](entry.runs > 0 => entry.cron)
    /\ [](EntryFailed => (~entry.cron /\ entry.runs = 0))
    /\ [](entry.pc = "exited" => (EntryFailed /\ entry.code > 0))
    /\ EntryFailed ~> (entry.pc = "exited" /\ entry.code > 0)

\* The daemon was started after an initial check that sent a notification
\* to two destinations, and the scheduled cycles have run.
C37_Witness ==
    /\ entry.cron /\ entry.runs = MaxRuns
    /\ emitted = <<"critical">> /\ Len(attempts) = 2

\* The raw selectors that name a direct-message backend when compared
\* without regard to case, and those that do not.
DirectRaws ==
    {"twilio-trial", "Twilio-Trial", "sms", "SMS", "twilio", "TWILIO",
     "twilio-paid", "tmobile-email", "email", "Email"}

ConsoleRaws == RawSelectors \ DirectRaws

====
